---------------------------- MODULE Spec2Model ----------------------------
(***************************************************************************)
(* Model of github.com/jlisicki/middlewarebuilder:                         *)
(*   - the chain Builder (Add / WithHandler / Build, Factories.Create);    *)
(*   - the example storage chain: Telemetry, Debug, Cache and the          *)
(*     InMemoryRepository, called by one or several callers.               *)
(* A value of the chain type T is a sequence of layers, outermost first:   *)
(* a wrapper holding Next is <<wrapper>> \o Next, the nil interface is     *)
(* the empty sequence.                                                     *)
(***************************************************************************)
EXTENDS Integers, Sequences, FiniteSets, TLC

\* ------------------------------------------------------------------ bounds
MaxFactories == 3   \* factories added to one Builder
MaxCalls == 4       \* repository calls started in one run
MaxShortCalls == 3  \* repository calls on the example chain and with stub serializers
MaxCallers == 2     \* concurrent callers of one repository

\* ------------------------------------------------------------------ errors
\* An error is the sequence of its messages, outermost wrapping first;
\* nil is the empty sequence.  fmt.Errorf("...: %w", err) prepends a message.
Nil == <<>>
errMissingHandler == <<"missing handler">>
errExample == <<"example error">>
errOther == <<"other error">>
errNotFound == <<"not found">>
errSerialize == <<"serializer failed">>

Wrap(msg, err) == <<msg>> \o err

\* errors.Is(err, target) for the sentinel errors above
ErrorsIs(err, target) ==
    \E k \in 1..Len(err) : SubSeq(err, k, Len(err)) = target

\* ----------------------------------------------------------- chain values
Layer(kind, label) == [kind |-> kind, label |-> label]

exampleHandler == <<Layer("exampleHandler", "")>>

\* A factory: what its Create does with next.
\*   ret = "wrap": returns a wrapper around next;  "next": returns next itself;
\*   ret = "nil" : returns the nil interface.       err: the error it returns.
exampleMiddlewareFactory(text) ==
    [kind |-> "exampleMiddleware", label |-> text, ret |-> "wrap", err |-> Nil]
failingFactoryFunc ==
    [kind |-> "none", label |-> "", ret |-> "nil", err |-> errExample]
passingFailingFactoryFunc ==
    [kind |-> "none", label |-> "", ret |-> "next", err |-> errOther]

TestFactories ==
    { exampleMiddlewareFactory("first"), exampleMiddlewareFactory("second"),
      exampleMiddlewareFactory("third"), failingFactoryFunc,
      passingFailingFactoryFunc }

\* Factory.Create(next) -> (T, error)
Create(f, next) ==
    [ val |-> CASE f.ret = "wrap" -> <<Layer(f.kind, f.label)>> \o next
                [] f.ret = "next" -> next
                [] OTHER          -> Nil,
      err |-> f.err ]

\* The loop of Factories.Create from index i down to 1 (Go: len(f)-1 .. 0);
\* invoked records the indices whose Create was called, in call order.
RECURSIVE CreateFrom(_, _, _, _)
CreateFrom(f, i, next, invoked) ==
    IF i < 1
    THEN [val |-> next, err |-> Nil, invoked |-> invoked]
    ELSE LET r == Create(f[i], next) IN
         IF r.err # Nil
         THEN [val |-> r.val, err |-> r.err, invoked |-> Append(invoked, i)]
         ELSE CreateFrom(f, i - 1, r.val, Append(invoked, i))

\* mutant: the loop runs in addition order
RECURSIVE CreateForward(_, _, _, _)
CreateForward(f, i, next, invoked) ==
    IF i > Len(f)
    THEN [val |-> next, err |-> Nil, invoked |-> invoked]
    ELSE LET r == Create(f[i], next) IN
         IF r.err # Nil
         THEN [val |-> r.val, err |-> r.err, invoked |-> Append(invoked, i)]
         ELSE CreateForward(f, i + 1, r.val, Append(invoked, i))

FactoriesCreateForward(f, h) == CreateForward(f, 1, h, <<>>)

\* mutant: the loop does not stop at a failing factory, the last error wins
RECURSIVE CreateNoAbort(_, _, _, _, _)
CreateNoAbort(f, i, next, err, invoked) ==
    IF i < 1
    THEN [val |-> next, err |-> err, invoked |-> invoked]
    ELSE LET r == Create(f[i], next) IN
         CreateNoAbort(f, i - 1, r.val, IF r.err # Nil THEN r.err ELSE err,
                       Append(invoked, i))

FactoriesCreateNoAbort(f, h) == CreateNoAbort(f, Len(f), h, Nil, <<>>)

\* Factories.Create(handler)
FactoriesCreate(f, h) == CreateFrom(f, Len(f), h, <<>>)

\* mutant: Build does not test the handler and builds around the zero value
BuilderBuildNoCheck(fs, hp) ==
    FactoriesCreate(fs, IF hp = <<>> THEN Nil ELSE hp[1])

\* Builder.Build on a builder with factories fs and handler pointer hp
\* (<<>> is the nil pointer, <<h>> points to h)
BuilderBuild(fs, hp) ==
    IF hp = <<>>
    THEN [val |-> Nil, err |-> errMissingHandler, invoked |-> <<>>]
    ELSE FactoriesCreate(fs, hp[1])

\* exampleMiddleware.CreateText / exampleHandler.CreateText: the text is the
\* sequence of the pieces joined by ": "
RECURSIVE CreateText(_, _)
CreateText(chain, input) ==
    IF chain = Nil THEN input
    ELSE IF Head(chain).kind = "exampleMiddleware"
         THEN CreateText(Tail(chain), Append(input, Head(chain).label))
         ELSE Append(input, "handler")

\* -------------------------------------------------- the example repository
\* User and UserID (UserID is a string); the zero User is what `var entity T`
\* holds
User(id, name) == [ID |-> id, Name |-> name]
ZeroUser == User("", "")
UserIDs == {"10", "11"}
UserNames == {"John", "Bob"}

\* User.Identifier
Identifier(u) == u.ID

\* []byte(t) for the identifiers in use, string(key) is the same byte string
Bytes(t) == CASE t = "10" -> <<49, 48>>
              [] t = "11" -> <<49, 49>>
              [] OTHER    -> <<>>

\* serializer[K].Serialize for the injected identifier serializers:
\*   "userID"   userIDSerializer: the bytes of the string;
\*   "constant" a serializer that maps every identifier to the same bytes;
\*   "failing"  a serializer that fails on "11"
IdSerialize(kind, id) ==
    CASE kind = "userID"   -> [bytes |-> Bytes(id), err |-> Nil]
      [] kind = "constant" -> [bytes |-> <<0>>, err |-> Nil]
      [] OTHER -> IF id = "11" THEN [bytes |-> <<>>, err |-> errSerialize]
                  ELSE [bytes |-> Bytes(id), err |-> Nil]

\* json.Marshal(User): the tokens of {"ID":"..","Name":".."}
JsonMarshal(u) == <<"{", "ID", u.ID, "Name", u.Name, "}">>

\* json.Unmarshal(bytes, &user)
JsonUnmarshal(raw) ==
    IF Len(raw) = 6 /\ raw[1] = "{" /\ raw[2] = "ID" /\ raw[4] = "Name"
                    /\ raw[6] = "}"
    THEN [val |-> User(raw[3], raw[5]), err |-> Nil]
    ELSE [val |-> ZeroUser, err |-> errSerialize]

\* serializer[T].Serialize for the injected entity serializers:
\*   "user"      userSerializer (JSON);
\*   "failing"   fails on users named Bob;
\*   "writeOnly" serializes as JSON, never unserializes
EntSerialize(kind, u) ==
    IF kind = "failing" /\ u.Name = "Bob"
    THEN [bytes |-> <<>>, err |-> errSerialize]
    ELSE [bytes |-> JsonMarshal(u), err |-> Nil]

\* serializer[T].UnSerialize
EntUnSerialize(kind, raw) ==
    IF kind = "writeOnly"
    THEN [val |-> ZeroUser, err |-> errSerialize]
    ELSE JsonUnmarshal(raw)

\* a Go map as a function on its keys
MapSet(m, k, v) == [x \in DOMAIN m \cup {k} |-> IF x = k THEN v ELSE m[x]]
MapDelete(m, k) == [x \in DOMAIN m \ {k} |-> m[x]]
EmptyMap == [x \in {} |-> x]

\* InMemoryRepository.Get between Lock and Unlock
InMemoryRepositoryGet(ser, ents, id) ==
    LET key == IdSerialize(ser.id, id) IN
    IF key.err # Nil
    THEN [entity |-> ZeroUser,
          err |-> Wrap("unable to serialize identifier", key.err)]
    ELSE IF key.bytes \notin DOMAIN ents
    THEN [entity |-> ZeroUser, err |-> errNotFound]
    ELSE LET un == EntUnSerialize(ser.ent, ents[key.bytes]) IN
         IF un.err # Nil
         THEN [entity |-> un.val,
               err |-> Wrap("unable to unserialize entity", un.err)]
         ELSE [entity |-> un.val, err |-> Nil]

\* mutant: the entry is written before the entity is serialized
InMemoryRepositorySetEarlyWrite(ser, ents, entity) ==
    LET key == IdSerialize(ser.id, Identifier(entity))
        raw == EntSerialize(ser.ent, entity) IN
    IF key.err # Nil
    THEN [entities |-> ents,
          err |-> Wrap("unable to serialize identifier", key.err)]
    ELSE IF raw.err # Nil
    THEN [entities |-> MapSet(ents, key.bytes, raw.bytes),
          err |-> Wrap("unable to serialize entity", raw.err)]
    ELSE [entities |-> MapSet(ents, key.bytes, raw.bytes), err |-> Nil]

\* InMemoryRepository.Set between Lock and Unlock
InMemoryRepositorySet(ser, ents, entity) ==
    LET key == IdSerialize(ser.id, Identifier(entity))
        raw == EntSerialize(ser.ent, entity) IN
    IF key.err # Nil
    THEN [entities |-> ents,
          err |-> Wrap("unable to serialize identifier", key.err)]
    ELSE IF raw.err # Nil
    THEN [entities |-> ents,
          err |-> Wrap("unable to serialize entity", raw.err)]
    ELSE [entities |-> MapSet(ents, key.bytes, raw.bytes), err |-> Nil]

\* mutant: deleting an absent key is an error
InMemoryRepositoryDeleteStrict(ser, ents, id) ==
    LET key == IdSerialize(ser.id, id) IN
    IF key.err # Nil
    THEN [entities |-> ents,
          err |-> Wrap("unable to serialize identifier", key.err)]
    ELSE IF key.bytes \notin DOMAIN ents
    THEN [entities |-> ents, err |-> errNotFound]
    ELSE [entities |-> MapDelete(ents, key.bytes), err |-> Nil]

\* mutant: Delete reports success and leaves the entry
InMemoryRepositoryDeleteNoop(ser, ents, id) ==
    LET key == IdSerialize(ser.id, id) IN
    IF key.err # Nil
    THEN [entities |-> ents,
          err |-> Wrap("unable to serialize identifier", key.err)]
    ELSE [entities |-> ents, err |-> Nil]

\* InMemoryRepository.Delete between Lock and Unlock
InMemoryRepositoryDelete(ser, ents, id) ==
    LET key == IdSerialize(ser.id, id) IN
    IF key.err # Nil
    THEN [entities |-> ents,
          err |-> Wrap("unable to serialize identifier", key.err)]
    ELSE [entities |-> MapDelete(ents, key.bytes), err |-> Nil]

\* the factories of NewUserRepository, in the order they are added
TelemetryFactory ==
    [kind |-> "Telemetry", label |-> "", ret |-> "wrap", err |-> Nil]
DebugFactory(label) ==
    [kind |-> "Debug", label |-> label, ret |-> "wrap", err |-> Nil]
CacheFactory ==
    [kind |-> "Cache", label |-> "", ret |-> "wrap", err |-> Nil]
NewInMemoryRepository == <<Layer("InMemoryRepository", "")>>

\* mutant: the two Debug decorators are added with their labels swapped
NewUserRepositorySwapped ==
    BuilderBuild(<<TelemetryFactory, DebugFactory("StorageCall"), CacheFactory,
                   DebugFactory("CacheCall")>>, <<NewInMemoryRepository>>)

\* NewUserRepository: the Builder call that composes the example chain
NewUserRepository ==
    BuilderBuild(<<TelemetryFactory, DebugFactory("CacheCall"), CacheFactory,
                   DebugFactory("StorageCall")>>, <<NewInMemoryRepository>>)

\* a Cache constructed directly in front of a store, and a store alone
CacheOverStore == Create(CacheFactory, NewInMemoryRepository).val
StoreAlone == NewInMemoryRepository

VARIABLES
    factories,   \* Builder.factories
    handler,     \* Builder.handler: <<>> (nil) or <<h>>
    lastBuild,   \* the last Build call: the builder it ran on and what it returned
    out,         \* the text produced by the last call of a built chain
    env,         \* the repository under test: its chain, serializers, callers
    ph,          \* per caller: "idle", "enter", "locked" or "ret"
    d,           \* per caller: index in the chain of the layer it is in
    op,          \* per caller: the call in progress
    res,         \* per caller: the (entity, error) being returned
    note,        \* per caller: observations of the call in progress
    cacheLock,   \* Cache.lock: 0 or the caller holding it
    cached,      \* Cache.cached: per key the entity, and the store time it was fetched at
    storeLock,   \* InMemoryRepository.lock: 0 or the caller holding it
    entities,    \* InMemoryRepository.entities
    storeTime,   \* number of Set/Delete the store has executed without error
    storeLog,    \* the calls the store has executed, in the order they held its lock
    output,      \* the lines written to the Debug output
    tlog,        \* the lines Telemetry logged
    started,     \* number of calls started
    hist         \* the completed calls, in order of return

bvars == <<factories, handler, lastBuild, out>>
rvars == <<env, ph, d, op, res, note, cacheLock, cached, storeLock,
           entities, storeTime, storeLog, output, tlog, started, hist>>
vars == <<bvars, rvars>>

Callers == 1..MaxCallers

NoBuild ==
    [done |-> FALSE, factories |-> <<>>, handler |-> <<>>,
     val |-> Nil, err |-> Nil, invoked |-> <<>>]

NoOp == [name |-> "", id |-> "", entity |-> ZeroUser, ctx |-> "background"]
NoRes == [entity |-> ZeroUser, err |-> Nil]
NoNote == [start |-> 0, outStart |-> 0, deepest |-> 0, hit |-> FALSE, time |-> 0]

\* the state of a Builder after NewBuilder
NewBuilder ==
    /\ factories = <<>>
    /\ handler = <<>>
    /\ lastBuild = NoBuild
    /\ out = <<>>

\* the state of a repository chain after construction, before any call
NewRepository(e) ==
    /\ env = e
    /\ ph = [p \in Callers |-> "idle"]
    /\ d = [p \in Callers |-> 0]
    /\ op = [p \in Callers |-> NoOp]
    /\ res = [p \in Callers |-> NoRes]
    /\ note = [p \in Callers |-> NoNote]
    /\ cacheLock = 0
    /\ cached = EmptyMap
    /\ storeLock = 0
    /\ entities = EmptyMap
    /\ storeTime = 0
    /\ storeLog = <<>>
    /\ output = <<>>
    /\ tlog = <<>>
    /\ started = 0
    /\ hist = <<>>

Env(chain, idSer, entSer, callers, ids, ctxs, maxCalls) ==
    [chain |-> chain, ser |-> [id |-> idSer, ent |-> entSer],
     callers |-> callers, ids |-> ids, ctxs |-> ctxs, maxCalls |-> maxCalls]

\* ------------------------------------------------------------- the Builder
\* Builder.Add
Add(f) ==
    /\ Len(factories) < MaxFactories
    /\ factories' = Append(factories, f)
    /\ UNCHANGED <<handler, lastBuild, out, rvars>>

\* Builder.WithHandler
WithHandler(h) ==
    /\ handler' = <<h>>
    /\ UNCHANGED <<factories, lastBuild, out, rvars>>

\* Builder.Build
Build ==
    /\ LET r == BuilderBuild(factories, handler) IN
       lastBuild' = [done |-> TRUE, factories |-> factories, handler |-> handler,
                     val |-> r.val, err |-> r.err, invoked |-> r.invoked]
    /\ UNCHANGED <<factories, handler, out, rvars>>

\* chain.CreateText("input") on the chain the last Build returned without error
CallChain ==
    /\ lastBuild.done
    /\ lastBuild.err = Nil
    /\ out' = CreateText(lastBuild.val, <<"input">>)
    /\ UNCHANGED <<factories, handler, lastBuild, rvars>>

InitBuilder ==
    /\ NewBuilder
    /\ NewRepository(Env(StoreAlone, "userID", "user", {}, {}, {}, 0))

NextBuilder ==
    \/ \E f \in TestFactories : Add(f)
    \/ WithHandler(exampleHandler)
    \/ Build
    \/ CallChain

SpecBuilder == InitBuilder /\ [][NextBuilder]_vars

\* ---------------------------------------------------- calls on the chain
\* the layer caller p is in
Cur(p) == env.chain[d[p]]
In(p, phase, kind) == ph[p] = phase /\ d[p] >= 1 /\ Cur(p).kind = kind

\* the identifier a call is about
OpId(o) == IF o.name = "Set" THEN Identifier(o.entity) ELSE o.id

\* the calls a caller can make
Ops(e) ==
    {[name |-> n, id |-> i, entity |-> ZeroUser, ctx |-> c] :
        n \in {"Get", "Delete"}, i \in e.ids, c \in e.ctxs}
    \cup {[name |-> "Set", id |-> "", entity |-> User(i, n), ctx |-> c] :
        i \in e.ids, n \in UserNames, c \in e.ctxs}

\* control moves of caller p: into the next layer, or back to the layer above
Descend(p) ==
    /\ ph' = [ph EXCEPT ![p] = "enter"]
    /\ d' = [d EXCEPT ![p] = d[p] + 1]
Ascend(p) ==
    /\ ph' = [ph EXCEPT ![p] = "ret"]
    /\ d' = [d EXCEPT ![p] = d[p] - 1]

\* a caller starts a call on the outermost layer
Call(p, o) ==
    /\ p \in env.callers
    /\ ph[p] = "idle"
    /\ started < env.maxCalls
    /\ started' = started + 1
    /\ op' = [op EXCEPT ![p] = o]
    /\ res' = [res EXCEPT ![p] = NoRes]
    /\ note' = [note EXCEPT ![p] = [NoNote EXCEPT !.start = Len(hist),
                                                  !.outStart = Len(output)]]
    /\ ph' = [ph EXCEPT ![p] = "enter"]
    /\ d' = [d EXCEPT ![p] = 1]
    /\ UNCHANGED <<env, cacheLock, cached, storeLock, entities,
                   storeTime, storeLog, output, tlog, hist, bvars>>

\* the call returns to the caller
Return(p) ==
    /\ ph[p] = "ret"
    /\ d[p] = 0
    /\ hist' = Append(hist,
          [name |-> op[p].name, id |-> OpId(op[p]), entity |-> op[p].entity,
           ctx |-> op[p].ctx, res |-> res[p].entity, err |-> res[p].err,
           start |-> note[p].start, deepest |-> note[p].deepest,
           hit |-> note[p].hit, time |-> note[p].time,
           lines |-> SubSeq(output, note[p].outStart + 1, Len(output))])
    /\ ph' = [ph EXCEPT ![p] = "idle"]
    /\ op' = [op EXCEPT ![p] = NoOp]
    /\ res' = [res EXCEPT ![p] = NoRes]
    /\ note' = [note EXCEPT ![p] = NoNote]
    /\ UNCHANGED <<env, d, cacheLock, cached, storeLock, entities,
                   storeTime, storeLog, output, tlog, started, bvars>>

\* entering layer d[p] is noted as the deepest layer the call reached
Deeper(p) == note' = [note EXCEPT ![p].deepest = d[p]]

\* ------------------------------------------------------------- Telemetry
\* Telemetry.Get/Set/Delete up to the call of Next
TelemetryCall(p) ==
    /\ In(p, "enter", "Telemetry")
    /\ Deeper(p)
    /\ Descend(p)
    /\ UNCHANGED <<env, op, res, cacheLock, cached, storeLock,
                   entities, storeTime, storeLog, output, tlog, started, hist, bvars>>

\* Telemetry.Get/Set/Delete: the deferred log.Printf, then the return
TelemetryReturn(p) ==
    /\ In(p, "ret", "Telemetry")
    /\ tlog' = Append(tlog, op[p].name)
    /\ Ascend(p)
    /\ UNCHANGED <<env, op, res, note, cacheLock, cached, storeLock,
                   entities, storeTime, storeLog, output, started, hist, bvars>>

\* ------------------------------------------------------------------ Debug
\* mutant: Debug writes its line whatever the context carries
DebugEnabledAlways(ctx) == TRUE

\* ctx.Value(debugEnabler).(string): set by ContextWithEnabledDebug only
DebugEnabled(ctx) == ctx = "debug"

\* the line "[DEBUG][<label>] Pre<operation>\n"
DebugLine(label, name) == <<"[DEBUG]", label, "Pre", name>>

\* mutant: Debug calls Next only when the context carries the marker
DebugCallMarkedOnly(p) ==
    /\ In(p, "enter", "Debug")
    /\ output' = IF DebugEnabled(op[p].ctx)
                 THEN Append(output, DebugLine(Cur(p).label, op[p].name))
                 ELSE output
    /\ Deeper(p)
    /\ IF DebugEnabled(op[p].ctx) THEN Descend(p) ELSE Ascend(p)
    /\ UNCHANGED <<env, op, res, cacheLock, cached, storeLock,
                   entities, storeTime, storeLog, tlog, started, hist, bvars>>

\* Debug.Get/Set/Delete up to the call of Next
DebugCall(p) ==
    /\ In(p, "enter", "Debug")
    /\ output' = IF DebugEnabled(op[p].ctx)
                 THEN Append(output, DebugLine(Cur(p).label, op[p].name))
                 ELSE output
    /\ Deeper(p)
    /\ Descend(p)
    /\ UNCHANGED <<env, op, res, cacheLock, cached, storeLock,
                   entities, storeTime, storeLog, tlog, started, hist, bvars>>

\* Debug.Get/Set/Delete: the return of Next's result
DebugReturn(p) ==
    /\ In(p, "ret", "Debug")
    /\ Ascend(p)
    /\ UNCHANGED <<env, op, res, note, cacheLock, cached, storeLock,
                   entities, storeTime, storeLog, output, tlog, started, hist, bvars>>

\* ------------------------------------------------------------------ Cache
\* mutant: Get does not store what it fetched
CacheAfterGetNoStore(c, r, t) == c

\* mutant: Get stores what Next returned even when Next failed
CacheAfterGetAlways(c, r, t) ==
    MapSet(c, Identifier(r.entity), [entity |-> r.entity, at |-> t])

\* c.cached after Cache.Get received r from Next at store time t
CacheAfterGet(c, r, t) ==
    IF r.err # Nil THEN c
    ELSE MapSet(c, Identifier(r.entity), [entity |-> r.entity, at |-> t])

\* mutant: Set leaves the cache entry in place
CacheAfterSetKeep(c, entity) == c

\* c.cached after the delete in Cache.Set
CacheAfterSet(c, entity) == MapDelete(c, Identifier(entity))

\* mutant: Delete leaves the cache entry in place
CacheAfterDeleteKeep(c, id) == c

\* c.cached after the delete in Cache.Delete
CacheAfterDelete(c, id) == MapDelete(c, id)

\* c.lock.Lock() in Cache.Get/Set/Delete
CacheLock(p) ==
    /\ In(p, "enter", "Cache")
    /\ cacheLock = 0
    /\ cacheLock' = p
    /\ ph' = [ph EXCEPT ![p] = "locked"]
    /\ Deeper(p)
    /\ UNCHANGED <<env, d, op, res, cached, storeLock, entities, storeTime, storeLog,
                   output, tlog, started, hist, bvars>>

\* mutant: Get releases the lock before it calls Next on a miss
CacheGetUnlockOnMiss(p) ==
    /\ In(p, "locked", "Cache")
    /\ op[p].name = "Get"
    /\ IF op[p].id \in DOMAIN cached
       THEN /\ res' = [res EXCEPT ![p] =
                          [entity |-> cached[op[p].id].entity, err |-> Nil]]
            /\ note' = [note EXCEPT ![p].hit = TRUE,
                                    ![p].time = cached[op[p].id].at]
            /\ Ascend(p)
       ELSE /\ Descend(p)
            /\ UNCHANGED <<res, note>>
    /\ cacheLock' = 0
    /\ UNCHANGED <<env, op, cached, storeLock, entities, storeTime, storeLog, output,
                   tlog, started, hist, bvars>>

\* Cache.Get after Lock: the lookup; a hit returns (the deferred Unlock
\* runs), a miss calls Next with the lock held
CacheGet(p) ==
    /\ In(p, "locked", "Cache")
    /\ op[p].name = "Get"
    /\ IF op[p].id \in DOMAIN cached
       THEN /\ res' = [res EXCEPT ![p] =
                          [entity |-> cached[op[p].id].entity, err |-> Nil]]
            /\ note' = [note EXCEPT ![p].hit = TRUE,
                                    ![p].time = cached[op[p].id].at]
            /\ cacheLock' = 0
            /\ Ascend(p)
       ELSE /\ Descend(p)
            /\ UNCHANGED <<res, note, cacheLock>>
    /\ UNCHANGED <<env, op, cached, storeLock, entities, storeTime, storeLog, output,
                   tlog, started, hist, bvars>>

\* mutant: Get stores what it fetched under the identifier it was asked for
CacheGetReturnUnderId(p) ==
    /\ In(p, "ret", "Cache")
    /\ op[p].name = "Get"
    /\ cached' = IF res[p].err # Nil THEN cached
                 ELSE MapSet(cached, op[p].id,
                             [entity |-> res[p].entity, at |-> note[p].time])
    /\ cacheLock' = 0
    /\ Ascend(p)
    /\ UNCHANGED <<env, op, res, note, storeLock, entities, storeTime,
                   storeLog, output, tlog, started, hist, bvars>>

\* mutant: Get returns after a miss without releasing the lock
CacheGetReturnNoUnlock(p) ==
    /\ In(p, "ret", "Cache")
    /\ op[p].name = "Get"
    /\ cached' = CacheAfterGet(cached, res[p], note[p].time)
    /\ Ascend(p)
    /\ UNCHANGED <<env, op, res, note, cacheLock, storeLock, entities,
                   storeTime, storeLog, output, tlog, started, hist, bvars>>

\* Cache.Get after Next.Get returned: store the entity unless Next failed,
\* return (the deferred Unlock runs)
CacheGetReturn(p) ==
    /\ In(p, "ret", "Cache")
    /\ op[p].name = "Get"
    /\ cached' = CacheAfterGet(cached, res[p], note[p].time)
    /\ cacheLock' = 0
    /\ Ascend(p)
    /\ UNCHANGED <<env, op, res, note, storeLock, entities, storeTime, storeLog, output,
                   tlog, started, hist, bvars>>

\* Cache.Set after Lock: delete, Unlock, call Next.Set
CacheSet(p) ==
    /\ In(p, "locked", "Cache")
    /\ op[p].name = "Set"
    /\ cached' = CacheAfterSet(cached, op[p].entity)
    /\ cacheLock' = 0
    /\ Descend(p)
    /\ UNCHANGED <<env, op, res, note, storeLock, entities, storeTime, storeLog, output,
                   tlog, started, hist, bvars>>

\* Cache.Delete after Lock: delete, Unlock, call Next.Delete
CacheDelete(p) ==
    /\ In(p, "locked", "Cache")
    /\ op[p].name = "Delete"
    /\ cached' = CacheAfterDelete(cached, op[p].id)
    /\ cacheLock' = 0
    /\ Descend(p)
    /\ UNCHANGED <<env, op, res, note, storeLock, entities, storeTime, storeLog, output,
                   tlog, started, hist, bvars>>

\* Cache.Set/Delete: the return of Next's error
CacheWriteReturn(p) ==
    /\ In(p, "ret", "Cache")
    /\ op[p].name \in {"Set", "Delete"}
    /\ Ascend(p)
    /\ UNCHANGED <<env, op, res, note, cacheLock, cached, storeLock, entities,
                   storeTime, storeLog, output, tlog, started, hist, bvars>>

\* ----------------------------------------------------- InMemoryRepository
\* mutant: the store's methods do not wait for the lock
StoreLockNoWait(p) ==
    /\ In(p, "enter", "InMemoryRepository")
    /\ storeLock' = p
    /\ ph' = [ph EXCEPT ![p] = "locked"]
    /\ Deeper(p)
    /\ UNCHANGED <<env, d, op, res, cacheLock, cached, entities, storeTime,
                   storeLog, output, tlog, started, hist, bvars>>

\* i.lock.Lock() in InMemoryRepository.Get/Set/Delete
StoreLock(p) ==
    /\ In(p, "enter", "InMemoryRepository")
    /\ storeLock = 0
    /\ storeLock' = p
    /\ ph' = [ph EXCEPT ![p] = "locked"]
    /\ Deeper(p)
    /\ UNCHANGED <<env, d, op, res, cacheLock, cached, entities, storeTime, storeLog,
                   output, tlog, started, hist, bvars>>

\* a call the store executed and what it returned
Executed(o, r) ==
    [name |-> o.name, id |-> OpId(o), entity |-> o.entity,
     res |-> r.entity, err |-> r.err]

\* InMemoryRepository.Get after Lock, up to the deferred Unlock
StoreGet(p) ==
    /\ In(p, "locked", "InMemoryRepository")
    /\ op[p].name = "Get"
    /\ res' = [res EXCEPT ![p] =
                  InMemoryRepositoryGet(env.ser, entities, op[p].id)]
    /\ note' = [note EXCEPT ![p].time = storeTime]
    /\ storeLog' = Append(storeLog, Executed(op[p], res'[p]))
    /\ storeLock' = 0
    /\ Ascend(p)
    /\ UNCHANGED <<env, op, cacheLock, cached, entities, storeTime, output,
                   tlog, started, hist, bvars>>

\* InMemoryRepository.Set after Lock, up to the deferred Unlock
StoreSet(p) ==
    /\ In(p, "locked", "InMemoryRepository")
    /\ op[p].name = "Set"
    /\ LET r == InMemoryRepositorySet(env.ser, entities, op[p].entity)
           t == IF r.err = Nil THEN storeTime + 1 ELSE storeTime IN
       /\ entities' = r.entities
       /\ res' = [res EXCEPT ![p] = [entity |-> ZeroUser, err |-> r.err]]
       /\ storeTime' = t
       /\ note' = [note EXCEPT ![p].time = t]
    /\ storeLog' = Append(storeLog, Executed(op[p], res'[p]))
    /\ storeLock' = 0
    /\ Ascend(p)
    /\ UNCHANGED <<env, op, cacheLock, cached, output, tlog, started, hist,
                   bvars>>

\* InMemoryRepository.Delete after Lock, up to the deferred Unlock
StoreDelete(p) ==
    /\ In(p, "locked", "InMemoryRepository")
    /\ op[p].name = "Delete"
    /\ LET r == InMemoryRepositoryDelete(env.ser, entities, op[p].id)
           t == IF r.err = Nil THEN storeTime + 1 ELSE storeTime IN
       /\ entities' = r.entities
       /\ res' = [res EXCEPT ![p] = [entity |-> ZeroUser, err |-> r.err]]
       /\ storeTime' = t
       /\ note' = [note EXCEPT ![p].time = t]
    /\ storeLog' = Append(storeLog, Executed(op[p], res'[p]))
    /\ storeLock' = 0
    /\ Ascend(p)
    /\ UNCHANGED <<env, op, cacheLock, cached, output, tlog, started, hist,
                   bvars>>

\* ------------------------------------------------------- specifications
\* one caller: the example chain with and without the debug marker, and a
\* Cache over a store and a store alone, with the user serializers and
\* with the stub serializers
SeqEnvs ==
    { Env(NewUserRepository.val, "userID", "user", {1}, {"10"},
          {"background", "debug"}, MaxShortCalls) }
    \cup { Env(c, "userID", "user", {1}, UserIDs, {"background"}, MaxCalls) :
             c \in {CacheOverStore, StoreAlone} }
    \cup { Env(c, s[1], s[2], {1}, UserIDs, {"background"}, MaxShortCalls) :
             c \in {CacheOverStore, StoreAlone},
             s \in {<<"constant", "user">>, <<"failing", "failing">>,
                    <<"userID", "writeOnly">>} }

\* several callers of one Cache over a store, and of one store
ConcEnvs ==
    { Env(c, "userID", "user", Callers, {"10"}, {"background"}, MaxCalls) :
        c \in {CacheOverStore, StoreAlone} }

InitSeq == NewBuilder /\ \E e \in SeqEnvs : NewRepository(e)
InitConc == NewBuilder /\ \E e \in ConcEnvs : NewRepository(e)

StoreStep(p) ==
    \/ StoreLock(p)
    \/ StoreGet(p)
    \/ StoreSet(p)
    \/ StoreDelete(p)

CacheStep(p) ==
    \/ CacheLock(p)
    \/ CacheGet(p)
    \/ CacheGetReturn(p)
    \/ CacheSet(p)
    \/ CacheDelete(p)
    \/ CacheWriteReturn(p)

CallerStep(p) ==
    \/ \E o \in Ops(env) : Call(p, o)
    \/ Return(p)

NextSeq ==
    \E p \in Callers :
        \/ CallerStep(p)
        \/ TelemetryCall(p)
        \/ TelemetryReturn(p)
        \/ DebugCall(p)
        \/ DebugReturn(p)
        \/ CacheStep(p)
        \/ StoreStep(p)

NextConc ==
    \E p \in Callers :
        \/ CallerStep(p)
        \/ CacheStep(p)
        \/ StoreStep(p)

\* calls that do not overlap, on every chain
SpecSeq == InitSeq /\ [][NextSeq]_vars

\* concurrent calls on a Cache over a store
SpecConc == InitConc /\ [][NextConc]_vars

\* the steps of caller p that wait for nothing
Progress(p) ==
    \/ CacheGet(p)
    \/ CacheGetReturn(p)
    \/ CacheSet(p)
    \/ CacheDelete(p)
    \/ CacheWriteReturn(p)
    \/ StoreGet(p)
    \/ StoreSet(p)
    \/ StoreDelete(p)
    \/ Return(p)

\* every goroutine that can run does run, and a goroutine waiting in
\* sync.Mutex.Lock gets the lock if it is released again and again
Fairness ==
    \A p \in Callers :
        /\ WF_vars(Progress(p))
        /\ SF_vars(CacheLock(p))
        /\ SF_vars(StoreLock(p))

\* several callers of one Cache over a store
LiveEnvs ==
    { Env(CacheOverStore, "userID", "user", Callers, {"10"}, {"background"},
          MaxShortCalls) }

InitLive == NewBuilder /\ \E e \in LiveEnvs : NewRepository(e)

\* concurrent calls on a Cache over a store, fairly scheduled
SpecLive == InitLive /\ [][NextConc]_vars /\ Fairness

\* ------------------------------------------------------ claims: the Builder
\* the wrappers the factories fs[from..Len(fs)] build around h, outermost first
StagesFrom(fs, from, h) ==
    [i \in 1..(Len(fs) - from + 1) |->
        Layer(fs[from + i - 1].kind, fs[from + i - 1].label)] \o h

\* the indices n, n-1, ..., k in that order
DownTo(n, k) == [i \in 1..(n - k + 1) |-> n - i + 1]

FailingIndices(fs) == {i \in 1..Len(fs) : fs[i].err # Nil}

LastFailing(fs) == CHOOSE k \in FailingIndices(fs) :
                       \A j \in FailingIndices(fs) : j <= k

\* C1: a Build on a builder whose handler was never set returns the
\* missing-handler error, whatever factories were added, and calls no Create.
C1_MissingHandler ==
    (lastBuild.done /\ lastBuild.handler = <<>>) =>
        /\ lastBuild.err = errMissingHandler
        /\ lastBuild.invoked = <<>>

C1_Witness ==
    /\ lastBuild.done
    /\ lastBuild.handler = <<>>
    /\ Len(lastBuild.factories) >= 2
    /\ lastBuild.err = errMissingHandler

\* C2: when every Create succeeds, Build calls Create for fN, ..., f1 in that
\* order starting from the handler, and the chain it returns runs f1's
\* wrapper first, then f2, ..., fN, then the handler.
C2_ChainOrder ==
    (/\ lastBuild.done
     /\ lastBuild.handler # <<>>
     /\ FailingIndices(lastBuild.factories) = {}) =>
        LET fs == lastBuild.factories
            n == Len(fs) IN
        /\ lastBuild.err = Nil
        /\ lastBuild.invoked = DownTo(n, 1)
        /\ lastBuild.val = StagesFrom(fs, 1, lastBuild.handler[1])
        /\ CreateText(lastBuild.val, <<"input">>) =
               <<"input">> \o [i \in 1..n |-> fs[i].label] \o <<"handler">>

C2_Witness ==
    /\ lastBuild.done
    /\ lastBuild.err = Nil
    /\ lastBuild.invoked = <<3, 2, 1>>
    /\ lastBuild.val = <<Layer("exampleMiddleware", "first"),
                         Layer("exampleMiddleware", "second"),
                         Layer("exampleMiddleware", "third")>> \o exampleHandler
    /\ out = <<"input", "first", "second", "third", "handler">>

\* C3: when fk is the last-added factory whose Create fails, Build returns
\* exactly fk's error, having called Create once on each of fN, ..., fk+1 and
\* then on fk, and on none of f1..fk-1.
C3_FirstErrorWins ==
    (/\ lastBuild.done
     /\ lastBuild.handler # <<>>
     /\ FailingIndices(lastBuild.factories) # {}) =>
        LET fs == lastBuild.factories
            k == LastFailing(fs) IN
        /\ lastBuild.err = fs[k].err
        /\ lastBuild.invoked = DownTo(Len(fs), k)

C3_Witness ==
    /\ lastBuild.done
    /\ lastBuild.handler # <<>>
    /\ Len(lastBuild.factories) = 3
    /\ FailingIndices(lastBuild.factories) = {1, 2}
    /\ lastBuild.factories[1].err # lastBuild.factories[2].err
    /\ lastBuild.err = lastBuild.factories[2].err
    /\ lastBuild.invoked = <<3, 2>>

\* C4: when a factory's Create fails, the value Build returns with the error
\* is neither the handler nor a chain of the wrappers already built around it.
C4_NoPartialChain ==
    (/\ lastBuild.done
     /\ lastBuild.handler # <<>>
     /\ lastBuild.err # Nil) =>
        \A j \in (LastFailing(lastBuild.factories) + 1)
                   ..(Len(lastBuild.factories) + 1) :
            lastBuild.val #
                StagesFrom(lastBuild.factories, j, lastBuild.handler[1])

\* --------------------------------------------------- claims: the repository
HasCache == \E i \in 1..Len(env.chain) : env.chain[i].kind = "Cache"
CacheIdx == CHOOSE i \in 1..Len(env.chain) : env.chain[i].kind = "Cache"

IsGet(h) == h.name = "Get"
IsWrite(h) == h.name \in {"Set", "Delete"}

\* the call returned what the Cache held: the stage after the Cache was not
\* entered
ServedByCache(h) == HasCache /\ h.deepest = CacheIdx
\* the Cache called its next stage
FetchedFromNext(h) == HasCache /\ h.deepest > CacheIdx

\* no Set or Delete for identifier id returned between hist[i] and hist[j]
NoWriteBetween(i, j, id) ==
    \A k \in (i + 1)..(j - 1) : ~(IsWrite(hist[k]) /\ hist[k].id = id)

\* C5 as claimed: after a Get(id) that fetched from the next stage and
\* succeeded, a later Get(id) with no Set or Delete for id in between returns
\* the same entity without calling the next stage.
C5_Original ==
    \A i, j \in 1..Len(hist) :
        (/\ i < j
         /\ IsGet(hist[i]) /\ IsGet(hist[j]) /\ hist[i].id = hist[j].id
         /\ FetchedFromNext(hist[i]) /\ hist[i].err = Nil
         /\ NoWriteBetween(i, j, hist[i].id)) =>
            /\ hist[j].err = Nil
            /\ hist[j].res = hist[i].res
            /\ ServedByCache(hist[j])

\* C5: after a Get(id) that fetched from the next stage an entity whose
\* Identifier() is id, a later Get(id) with no Set or Delete for id in between
\* returns the same entity without calling the next stage.
C5_CacheHit ==
    \A i, j \in 1..Len(hist) :
        (/\ i < j
         /\ IsGet(hist[i]) /\ IsGet(hist[j]) /\ hist[i].id = hist[j].id
         /\ FetchedFromNext(hist[i]) /\ hist[i].err = Nil
         /\ Identifier(hist[i].res) = hist[i].id
         /\ NoWriteBetween(i, j, hist[i].id)) =>
            /\ hist[j].err = Nil
            /\ hist[j].res = hist[i].res
            /\ ServedByCache(hist[j])

C5_Witness ==
    /\ Len(hist) = 3
    /\ hist[1].name = "Set" /\ hist[1].entity = User("10", "John")
    /\ IsGet(hist[2]) /\ hist[2].id = "10" /\ FetchedFromNext(hist[2])
    /\ hist[2].res = User("10", "John")
    /\ IsGet(hist[3]) /\ hist[3].id = "10" /\ ServedByCache(hist[3])
    /\ hist[3].res = User("10", "John")

\* hist[k] and hist[i] overlapped: neither returned before the other started
Overlap(i, k) == k # i /\ k > hist[i].start /\ i > hist[k].start

\* some Get was in progress while the write hist[i] was
GetOverlapped(i) ==
    \/ \E k \in 1..Len(hist) : IsGet(hist[k]) /\ Overlap(i, k)
    \/ \E p \in Callers :
          ph[p] # "idle" /\ op[p].name = "Get" /\ note[p].start < i

\* the Get hist[j] started after the write hist[i] returned, is for the
\* identifier written, and was served by the Cache with a value that was
\* fetched before the store executed the write and is not the value written
StaleAfter(i, j) ==
    /\ IsWrite(hist[i]) /\ IsGet(hist[j]) /\ hist[i].id = hist[j].id
    /\ i <= hist[j].start
    /\ ServedByCache(hist[j])
    /\ hist[j].time < hist[i].time
    /\ (hist[i].name = "Delete" \/ hist[j].res # hist[i].entity)

\* C6 as claimed: for any number of callers, no Get that starts after a Set
\* or Delete for its identifier has returned gets a cached value fetched
\* before that write: it misses or returns the value written.
C6_Original ==
    \A i, j \in 1..Len(hist) : ~StaleAfter(i, j)

\* C6: no Get that starts after a Set or Delete for its identifier has
\* returned gets a cached value fetched before that write (it misses or
\* returns the value written), provided no Get was in progress while the
\* write was.
C6_NoStaleAfterWrite ==
    \A i, j \in 1..Len(hist) : StaleAfter(i, j) => GetOverlapped(i)

C6_Witness ==
    /\ HasCache
    /\ Len(hist) = 4
    /\ hist[1].name = "Set" /\ hist[1].entity = User("10", "John")
    /\ IsGet(hist[2]) /\ hist[2].id = "10" /\ hist[2].res = User("10", "John")
    /\ hist[3].name = "Set" /\ hist[3].entity = User("10", "Bob")
    /\ hist[3].err = Nil /\ ~GetOverlapped(3)
    /\ IsGet(hist[4]) /\ hist[4].id = "10" /\ hist[4].start = 3
    /\ hist[4].res = User("10", "Bob")

\* the previous call was Delete(id) and caller p is inside another Delete(id)
SecondDelete(p) ==
    /\ ph[p] # "idle"
    /\ op[p].name = "Delete"
    /\ note[p].start = Len(hist)
    /\ Len(hist) > 0
    /\ hist[Len(hist)].name = "Delete"
    /\ hist[Len(hist)].id = op[p].id
    /\ \A q \in Callers \ {p} : ph[q] = "idle"

\* C7: Delete returns no error whenever the identifier serializes, present
\* or not, directly on the store or through the Cache; a second Delete of
\* the same identifier right after the first changes neither store nor cache.
C7_DeleteIdempotent ==
    /\ [](\A k \in 1..Len(hist) :
            (hist[k].name = "Delete"
             /\ IdSerialize(env.ser.id, hist[k].id).err = Nil) =>
                hist[k].err = Nil)
    /\ [][(\E p \in Callers : SecondDelete(p)) =>
            (entities' = entities /\ cached' = cached)]_vars

C7_Witness ==
    /\ HasCache
    /\ Len(hist) = 3
    /\ hist[1].name = "Set" /\ hist[1].err = Nil /\ hist[1].id = "10"
    /\ hist[2].name = "Delete" /\ hist[2].id = "10" /\ hist[2].err = Nil
    /\ hist[3].name = "Delete" /\ hist[3].id = "10" /\ hist[3].err = Nil
    /\ entities = EmptyMap

\* the lines one call of the example chain writes with the debug marker
ExpectedLines(h) ==
    <<DebugLine("CacheCall", h.name)>>
    \o (IF IsWrite(h) \/ ~h.hit
        THEN <<DebugLine("StorageCall", h.name)>> ELSE <<>>)

DebugCallOf(h, name, id) == h.name = name /\ h.id = id /\ h.ctx = "debug"

ExampleScenario ==
    /\ Len(hist) = 3
    /\ \A p \in env.callers : ph[p] = "idle"
    /\ DebugCallOf(hist[1], "Set", "10")
    /\ DebugCallOf(hist[2], "Get", "10")
    /\ DebugCallOf(hist[3], "Get", "10")

\* C8: on the chain NewUserRepository builds, with the debug marker, every
\* call writes its CacheCall line first, then a StorageCall line if it is a
\* Set, a Delete or a Get that misses the cache; Set(10), Get(10), Get(10)
\* writes PreSet, PreSet, PreGet, PreGet, PreGet with these labels, no more.
C8_DebugTrace ==
    (env.chain = NewUserRepository.val /\ env.callers = {1}) =>
        /\ \A k \in 1..Len(hist) :
              hist[k].ctx = "debug" => hist[k].lines = ExpectedLines(hist[k])
        /\ ExampleScenario =>
              output = << DebugLine("CacheCall", "Set"),
                          DebugLine("StorageCall", "Set"),
                          DebugLine("CacheCall", "Get"),
                          DebugLine("StorageCall", "Get"),
                          DebugLine("CacheCall", "Get") >>

C8_Witness ==
    /\ env.chain = NewUserRepository.val
    /\ ExampleScenario
    /\ hist[1].entity = User("10", "John")
    /\ hist[3].res = User("10", "John")
    /\ hist[3].hit /\ ~hist[2].hit
    /\ Len(output) = 5

\* caller p executes the body of InMemoryRepository.Set in this step
StoreSetStep(p) ==
    /\ In(p, "locked", "InMemoryRepository")
    /\ op[p].name = "Set"
    /\ ph'[p] = "ret"

\* the error wraps the serializer's error
WrapsSerializerError(err) ==
    ErrorsIs(err, errSerialize) /\ Len(err) > Len(errSerialize)

\* C9: the store's Set returns an error wrapping the serializer's error and
\* leaves the map unchanged when either serialization fails; otherwise it
\* overwrites the entry of the serialized identifier and no other entry.
C9_StoreSet ==
    [][\A p \in Callers : StoreSetStep(p) =>
        LET e == op[p].entity
            key == IdSerialize(env.ser.id, Identifier(e))
            raw == EntSerialize(env.ser.ent, e) IN
        IF key.err # Nil \/ raw.err # Nil
        THEN /\ WrapsSerializerError(res'[p].err)
             /\ entities' = entities
        ELSE /\ res'[p].err = Nil
             /\ DOMAIN entities' = DOMAIN entities \cup {key.bytes}
             /\ entities'[key.bytes] = raw.bytes
             /\ \A k \in DOMAIN entities \ {key.bytes} :
                   entities'[k] = entities[k]]_vars

C9_Witness ==
    /\ env.chain = StoreAlone
    /\ Len(hist) = 3
    /\ hist[1].name = "Set" /\ hist[1].err = Nil
    /\ hist[2].name = "Set" /\ hist[2].id = hist[1].id
    /\ hist[2].err = Wrap("unable to serialize entity", errSerialize)
    /\ hist[3].name = "Set"
    /\ hist[3].err = Wrap("unable to serialize identifier", errSerialize)
    /\ entities = MapSet(EmptyMap, Bytes(hist[1].id), JsonMarshal(hist[1].entity))

\* the identifier serializer never fails and is injective, and entities
\* survive Serialize then UnSerialize
GoodSerializers(ser) ==
    /\ \A i \in UserIDs : IdSerialize(ser.id, i).err = Nil
    /\ \A i, j \in UserIDs :
          IdSerialize(ser.id, i).bytes = IdSerialize(ser.id, j).bytes => i = j
    /\ \A i \in UserIDs, n \in UserNames :
          /\ EntSerialize(ser.ent, User(i, n)).err = Nil
          /\ EntUnSerialize(ser.ent, EntSerialize(ser.ent, User(i, n)).bytes)
                = [val |-> User(i, n), err |-> Nil]

\* the successful Set and Delete calls for id that returned before hist[i]
WritesBefore(i, id) ==
    {k \in 1..(i - 1) : IsWrite(hist[k]) /\ hist[k].id = id /\ hist[k].err = Nil}

LastOf(S) == CHOOSE k \in S : \A j \in S : j <= k

\* caller p executes the body of InMemoryRepository.Get in this step
StoreGetStep(p) ==
    /\ In(p, "locked", "InMemoryRepository")
    /\ op[p].name = "Get"
    /\ ph'[p] = "ret"

\* C10: with injective identifier serialization and round-tripping entity
\* serialization, Get(id) on the store returns not-found exactly when no Set
\* for id succeeded since the last Delete(id), and otherwise the entity of
\* the most recent successful Set for id; Get never changes the store.
C10_StoreIsMap ==
    /\ []((env.chain = StoreAlone /\ env.callers = {1}
           /\ GoodSerializers(env.ser)) =>
            \A i \in 1..Len(hist) : IsGet(hist[i]) =>
                LET W == WritesBefore(i, hist[i].id) IN
                IF W = {} \/ hist[LastOf(W)].name = "Delete"
                THEN hist[i].err = errNotFound
                ELSE /\ hist[i].err = Nil
                     /\ hist[i].res = hist[LastOf(W)].entity)
    /\ [][\A p \in Callers : StoreGetStep(p) => entities' = entities]_vars

C10_Witness ==
    /\ env.chain = StoreAlone
    /\ GoodSerializers(env.ser)
    /\ Len(hist) = 4
    /\ hist[1].name = "Set" /\ hist[1].entity = User("10", "John")
    /\ IsGet(hist[2]) /\ hist[2].id = "10" /\ hist[2].res = User("10", "John")
    /\ hist[3].name = "Delete" /\ hist[3].id = "10"
    /\ IsGet(hist[4]) /\ hist[4].id = "10" /\ hist[4].err = errNotFound

\* caller p executes Cache.Get's handling of the result of Next.Get
CacheGetReturnStep(p) ==
    /\ In(p, "ret", "Cache")
    /\ op[p].name = "Get"
    /\ d'[p] = d[p] - 1

\* C11: when Cache.Get misses and Next.Get returns an error, Cache.Get
\* returns that error (and Next's entity) unchanged and leaves the cache map
\* as it was; the Get(id) that follows directly calls the next stage again.
C11_GetErrorNotCached ==
    /\ [][\A p \in Callers :
            (CacheGetReturnStep(p) /\ res[p].err # Nil) =>
                /\ cached' = cached
                /\ res'[p] = res[p]]_vars
    /\ [](env.callers = {1} =>
            \A i \in 1..(Len(hist) - 1) :
                (/\ IsGet(hist[i]) /\ IsGet(hist[i + 1])
                 /\ hist[i].id = hist[i + 1].id
                 /\ FetchedFromNext(hist[i]) /\ hist[i].err # Nil) =>
                    FetchedFromNext(hist[i + 1]))

C11_Witness ==
    /\ HasCache
    /\ Len(hist) = 3
    /\ hist[1].name = "Set" /\ hist[1].err = Nil
    /\ IsGet(hist[2]) /\ IsGet(hist[3]) /\ hist[2].id = hist[3].id
    /\ FetchedFromNext(hist[2]) /\ FetchedFromNext(hist[3])
    /\ ErrorsIs(hist[2].err, errSerialize)
    /\ hist[3].err = hist[2].err
    /\ cached = EmptyMap

\* caller p is in Cache.Get between the lookup and the return after a miss:
\* it has the lock and has not yet stored what Next.Get returns
GetHolding(p) ==
    /\ HasCache
    /\ op[p].name = "Get"
    /\ \/ d[p] = CacheIdx /\ ph[p] \in {"locked", "ret"}
       \/ d[p] > CacheIdx

\* the Next.Get that caller p's Cache.Get called has not returned
NextGetInFlight(p) == HasCache /\ op[p].name = "Get" /\ d[p] > CacheIdx

\* C12: a Get holds the cache lock from its lookup until the result of
\* Next.Get is stored, so at most one Get is between those points, at most
\* one Next.Get issued by the Cache is in flight, and while a Get is there
\* no other caller changes the cache map (no invalidation takes effect).
C12_GetSerialized ==
    /\ [](/\ \A p \in Callers : GetHolding(p) => cacheLock = p
          /\ Cardinality({p \in Callers : GetHolding(p)}) <= 1
          /\ Cardinality({p \in Callers : NextGetInFlight(p)}) <= 1)
    /\ [][\A p \in Callers : GetHolding(p) =>
            \/ cached' = cached
            \/ CacheGetReturnStep(p) /\ DOMAIN cached \subseteq DOMAIN cached']_vars

\* a Get is inside the store with the cache lock while a write waits for it
C12_Witness ==
    /\ HasCache
    /\ \E p, q \in Callers :
          /\ p # q
          /\ NextGetInFlight(p) /\ ph[p] = "locked" /\ storeLock = p
          /\ cacheLock = p
          /\ op[q].name \in {"Set", "Delete"}
          /\ In(q, "enter", "Cache")
          /\ Len(hist) >= 1

\* caller q is in Cache.Set or Cache.Delete after c.lock.Unlock()
WriteUnlocked(q) ==
    /\ HasCache
    /\ op[q].name \in {"Set", "Delete"}
    /\ \/ d[q] > CacheIdx
       \/ d[q] = CacheIdx /\ ph[q] = "ret"

\* caller q takes a step
StepOf(q) == ph'[q] # ph[q] \/ d'[q] # d[q]

\* the cache holds for the identifier of the completed write hist[i] an
\* entity that was fetched before the store executed that write
LeftStale(i) ==
    /\ IsWrite(hist[i]) /\ hist[i].err = Nil
    /\ hist[i].id \in DOMAIN cached
    /\ cached[hist[i].id].at < hist[i].time

\* C13: Set and Delete touch the cache map only under the lock they release
\* before calling Next, so what a concurrent Get stores after that stays:
\* the cache can hold, after a write has completed, a value fetched before
\* the store executed the write, and only if a Get was in progress during
\* the write.
C13_RaceWindow ==
    /\ [][\A q \in Callers :
            (WriteUnlocked(q) /\ StepOf(q)) => cached' = cached]_vars
    /\ [](\A i \in 1..Len(hist) : LeftStale(i) => GetOverlapped(i))

\* Set(John), then Set(Bob) (or Delete) with a concurrent Get: all calls
\* have returned, the store holds the written value and the cache holds John
C13_Witness ==
    /\ HasCache
    /\ \A p \in Callers : ph[p] = "idle"
    /\ Len(hist) = 3
    /\ hist[1].name = "Set" /\ hist[1].entity = User("10", "John")
    /\ IsGet(hist[2]) /\ hist[2].id = "10" /\ hist[2].res = User("10", "John")
    /\ FetchedFromNext(hist[2])
    /\ hist[3].name = "Set" /\ hist[3].entity = User("10", "Bob")
    /\ hist[3].err = Nil
    /\ Overlap(3, 2)
    /\ LeftStale(3)
    /\ cached["10"].entity = User("10", "John")
    /\ InMemoryRepositoryGet(env.ser, entities, "10").entity = User("10", "Bob")

\* one call on a Cache in front of a store, run alone from the maps in s:
\* the maps afterwards and what the call returns
CacheStoreCall(ser, s, h) ==
    IF h.name = "Get"
    THEN IF h.id \in DOMAIN s.cached
         THEN [cached |-> s.cached, entities |-> s.entities, time |-> s.time,
               entity |-> s.cached[h.id].entity, err |-> Nil]
         ELSE LET r == InMemoryRepositoryGet(ser, s.entities, h.id) IN
              [cached |-> CacheAfterGet(s.cached, r, s.time),
               entities |-> s.entities, time |-> s.time,
               entity |-> r.entity, err |-> r.err]
    ELSE LET r == IF h.name = "Set"
                  THEN InMemoryRepositorySet(ser, s.entities, h.entity)
                  ELSE InMemoryRepositoryDelete(ser, s.entities, h.id)
             c == IF h.name = "Set"
                  THEN CacheAfterSet(s.cached, h.entity)
                  ELSE CacheAfterDelete(s.cached, h.id) IN
         [cached |-> c, entities |-> r.entities,
          time |-> IF r.err = Nil THEN s.time + 1 ELSE s.time,
          entity |-> ZeroUser, err |-> r.err]

\* the first k calls of h run one after another on a new Cache and store
RECURSIVE CacheStoreRun(_, _, _)
CacheStoreRun(ser, h, k) ==
    IF k = 0
    THEN [cached |-> EmptyMap, entities |-> EmptyMap, time |-> 0,
          entity |-> ZeroUser, err |-> Nil]
    ELSE CacheStoreCall(ser, CacheStoreRun(ser, h, k - 1), h[k])

\* caller p takes a step inside a Telemetry or Debug decorator
DecoratorStep(p) ==
    /\ d[p] >= 1 /\ ph[p] # "idle"
    /\ Cur(p).kind \in {"Telemetry", "Debug"}
    /\ StepOf(p)

\* C14: a Telemetry or Debug decorator calls the same operation with the same
\* argument on its next stage once and returns what it gets: on every chain
\* with a Cache, decorated or not, with or without the debug marker, each
\* call returns what the Cache over the store returns for the same calls,
\* and the cache and store maps end up the same.
C14_Transparent ==
    /\ [][\A p \in Callers : DecoratorStep(p) =>
            /\ op'[p] = op[p] /\ res'[p] = res[p]
            /\ cached' = cached /\ entities' = entities
            /\ \/ ph[p] = "enter" /\ ph'[p] = "enter" /\ d'[p] = d[p] + 1
               \/ ph[p] = "ret" /\ ph'[p] = "ret" /\ d'[p] = d[p] - 1]_vars
    /\ []((HasCache /\ env.callers = {1}) =>
            /\ \A k \in 1..Len(hist) :
                  LET r == CacheStoreRun(env.ser, hist, k) IN
                  hist[k].res = r.entity /\ hist[k].err = r.err
            /\ (ph[1] = "idle") =>
                  LET r == CacheStoreRun(env.ser, hist, Len(hist)) IN
                  /\ [k \in DOMAIN cached |-> cached[k].entity]
                        = [k \in DOMAIN r.cached |-> r.cached[k].entity]
                  /\ entities = r.entities
                  /\ (env.chain[1].kind = "Telemetry") =>
                        tlog = [k \in 1..Len(hist) |-> hist[k].name])

C14_Witness ==
    /\ env.chain = NewUserRepository.val
    /\ ph[1] = "idle"
    /\ Len(hist) = 3
    /\ hist[1].name = "Set" /\ hist[1].entity = User("10", "John")
    /\ hist[1].ctx = "background"
    /\ IsGet(hist[2]) /\ hist[2].ctx = "debug"
    /\ hist[2].res = User("10", "John")
    /\ IsGet(hist[3]) /\ hist[3].ctx = "background"
    /\ hist[3].res = User("10", "John") /\ hist[3].hit
    /\ "10" \in DOMAIN cached
    /\ entities # EmptyMap
    /\ Len(tlog) = 3

\* caller p executes a Debug decorator's method up to its call of Next
DebugCallStep(p) ==
    /\ ph[p] = "enter" /\ d[p] >= 1
    /\ Cur(p).kind = "Debug"
    /\ StepOf(p)

\* the indices of the Debug decorators among the first n layers, in order
DebugLayers(n) ==
    LET IsDebug(k) == env.chain[k].kind = "Debug" IN
    SelectSeq([k \in 1..n |-> k], IsDebug)

\* the lines a call writes that has passed the layers up to n
LinesUpTo(ctx, name, n) ==
    IF ctx = "debug"
    THEN [i \in 1..Len(DebugLayers(n)) |->
             <<"[DEBUG]", env.chain[DebugLayers(n)[i]].label, "Pre", name>>]
    ELSE <<>>

\* C15: a Debug decorator writes one line, with its Label and Pre<operation>,
\* in the step that ends with its call of Next if the context carries the
\* marker, and nothing otherwise; nothing else writes to the sink, so a call
\* without the marker leaves no line and a call with it one line per Debug
\* decorator it has passed.
C15_DebugMarker ==
    /\ [][/\ \A p \in Callers : DebugCallStep(p) =>
              /\ d'[p] = d[p] + 1
              /\ output' =
                    IF op[p].ctx = "debug"
                    THEN Append(output,
                                <<"[DEBUG]", Cur(p).label, "Pre", op[p].name>>)
                    ELSE output
          /\ (output' # output) => \E p \in Callers : DebugCallStep(p)]_vars
    /\ [](env.callers = {1} =>
            /\ (ph[1] # "idle") =>
                  SubSeq(output, note[1].outStart + 1, Len(output))
                      = LinesUpTo(op[1].ctx, op[1].name, note[1].deepest)
            /\ \A k \in 1..Len(hist) :
                  hist[k].lines
                      = LinesUpTo(hist[k].ctx, hist[k].name, hist[k].deepest))

C15_Witness ==
    /\ env.chain = NewUserRepository.val
    /\ Len(hist) = 3
    /\ hist[1].name = "Set" /\ hist[1].ctx = "background"
    /\ hist[1].lines = <<>>
    /\ hist[2].name = "Delete" /\ hist[2].ctx = "debug"
    /\ hist[2].lines = << <<"[DEBUG]", "CacheCall", "Pre", "Delete">>,
                          <<"[DEBUG]", "StorageCall", "Pre", "Delete">> >>
    /\ IsGet(hist[3]) /\ hist[3].ctx = "background"
    /\ hist[3].lines = <<>>
    /\ Len(output) = 2

\* the store is the last layer of every chain
StoreIdx == Len(env.chain)

\* caller p is inside a method of the store, after Lock
InStore(p) == ph[p] = "locked" /\ d[p] = StoreIdx

\* one call on a store, run alone from the map ents
StoreCall(ser, ents, h) ==
    IF h.name = "Get"
    THEN LET r == InMemoryRepositoryGet(ser, ents, h.id) IN
         [entities |-> ents, entity |-> r.entity, err |-> r.err]
    ELSE LET r == IF h.name = "Set"
                  THEN InMemoryRepositorySet(ser, ents, h.entity)
                  ELSE InMemoryRepositoryDelete(ser, ents, h.id) IN
         [entities |-> r.entities, entity |-> ZeroUser, err |-> r.err]

\* the first k calls of log run one after another on a new store
RECURSIVE StoreRun(_, _, _)
StoreRun(ser, log, k) ==
    IF k = 0
    THEN [entities |-> EmptyMap, entity |-> ZeroUser, err |-> Nil]
    ELSE StoreCall(ser, StoreRun(ser, log, k - 1).entities, log[k])

\* how many calls equal to r have returned to their callers, or are
\* returning, and how many the store has executed
Returned(r) ==
    Cardinality({k \in 1..Len(hist) :
        Executed(hist[k], [entity |-> hist[k].res, err |-> hist[k].err]) = r})
    + Cardinality({p \in Callers :
        ph[p] = "ret" /\ Executed(op[p], res[p]) = r})
ExecutedCount(r) == Cardinality({k \in 1..Len(storeLog) : storeLog[k] = r})

\* C16: every method of the store runs between Lock and Unlock of the one
\* lock, so at most one caller is inside the store; what the calls return
\* and the map they leave are those of the same calls run one after another
\* in the order they took the lock.
C16_StoreSerialized ==
    /\ \A p \in Callers : InStore(p) => storeLock = p
    /\ Cardinality({p \in Callers : InStore(p)}) <= 1
    /\ storeLock # 0 => InStore(storeLock)
    /\ \A k \in 1..Len(storeLog) :
          LET r == StoreRun(env.ser, storeLog, k) IN
          storeLog[k].res = r.entity /\ storeLog[k].err = r.err
    /\ entities = StoreRun(env.ser, storeLog, Len(storeLog)).entities
    /\ (env.chain = StoreAlone) =>
          \A k \in 1..Len(storeLog) :
              Returned(storeLog[k]) = ExecutedCount(storeLog[k])

\* two callers of one store: the Set took the lock first, the Get second
\* and returned first
C16_Witness ==
    /\ env.chain = StoreAlone
    /\ \A p \in Callers : ph[p] = "idle"
    /\ Len(hist) = 3
    /\ IsGet(hist[1]) /\ hist[1].res = User("10", "John")
    /\ hist[2].name = "Set" /\ hist[2].entity = User("10", "John")
    /\ Overlap(1, 2)
    /\ hist[3].name = "Delete" /\ Overlap(3, 2)
    /\ storeLog[1].name = "Set" /\ storeLog[2].name = "Get"
    /\ storeLog[3].name = "Delete"
    /\ entities = EmptyMap

\* the Get hist[i] fetched from the next stage an entity with another
\* identifier than the one asked for
FetchedOther(i) ==
    /\ IsGet(hist[i]) /\ FetchedFromNext(hist[i]) /\ hist[i].err = Nil
    /\ Identifier(hist[i].res) # hist[i].id

\* C17: every cache entry is stored under the Identifier() of the entity it
\* holds; when Next.Get(id) returns an entity with another identifier,
\* Cache.Get stores it under that identifier and makes no entry under id,
\* and the Get(id) that follows directly calls the next stage again.
C17_KeyedByIdentifier ==
    /\ [](\A k \in DOMAIN cached : Identifier(cached[k].entity) = k)
    /\ [][\A p \in Callers :
            (/\ CacheGetReturnStep(p)
             /\ res[p].err = Nil
             /\ Identifier(res[p].entity) # op[p].id) =>
                /\ op[p].id \notin DOMAIN cached'
                /\ Identifier(res[p].entity) \in DOMAIN cached'
                /\ cached'[Identifier(res[p].entity)].entity = res[p].entity]_vars
    /\ [](env.callers = {1} =>
            \A i \in 1..(Len(hist) - 1) :
                (/\ FetchedOther(i)
                 /\ IsGet(hist[i + 1]) /\ hist[i + 1].id = hist[i].id) =>
                    FetchedFromNext(hist[i + 1]))

C17_Witness ==
    /\ HasCache
    /\ Len(hist) = 3
    /\ hist[1].name = "Set" /\ hist[1].entity = User("10", "John")
    /\ hist[2].id = "11" /\ FetchedOther(2)
    /\ hist[2].res = User("10", "John")
    /\ IsGet(hist[3]) /\ hist[3].id = "11" /\ FetchedFromNext(hist[3])
    /\ hist[3].res = User("10", "John")
    /\ DOMAIN cached = {"10"}

\* caller p is about to call Lock on the cache lock, on the store lock
WantsCacheLock(p) == In(p, "enter", "Cache")
WantsStoreLock(p) == In(p, "enter", "InMemoryRepository")

\* a step of a call in progress, on any caller
SomeStep == \E p \in Callers : CacheStep(p) \/ StoreStep(p) \/ Return(p)

\* C18: behind a Cache the store lock is requested either by a Get that
\* holds the cache lock or by a Set or Delete that holds no lock, and the
\* cache lock is never requested by the holder of a lock; whenever a call is
\* in progress some call can take a step, and under fair scheduling every
\* call that started returns.
C18_NoDeadlock ==
    /\ [](\A p \in Callers :
            /\ (HasCache /\ WantsStoreLock(p)) =>
                  /\ storeLock # p
                  /\ (op[p].name = "Get") => cacheLock = p
                  /\ (op[p].name # "Get") => cacheLock # p
            /\ WantsCacheLock(p) => (cacheLock # p /\ storeLock # p)
            /\ (storeLock = p) => InStore(p))
    /\ []((\E p \in Callers : ph[p] # "idle") => ENABLED SomeStep)
    /\ \A p \in Callers : (ph[p] # "idle") ~> (ph[p] = "idle")

\* one caller waits for the cache lock while the other holds it, inside the
\* store, and calls have already returned
C18_Witness ==
    /\ HasCache
    /\ Len(hist) >= 1
    /\ \E p, q \in Callers :
          /\ p # q
          /\ op[p].name = "Get" /\ InStore(p) /\ cacheLock = p
          /\ WantsCacheLock(q) /\ op[q].name = "Get"

\* identifiers that serialize have keys of their own, and an entity that
\* serializes comes back from UnSerialize
SoundSerializers(ser) ==
    /\ \A i, j \in UserIDs :
          (/\ IdSerialize(ser.id, i).err = Nil
           /\ IdSerialize(ser.id, j).err = Nil
           /\ IdSerialize(ser.id, i).bytes = IdSerialize(ser.id, j).bytes) =>
              i = j
    /\ \A i \in UserIDs, n \in UserNames :
          EntSerialize(ser.ent, User(i, n)).err = Nil =>
              EntUnSerialize(ser.ent, EntSerialize(ser.ent, User(i, n)).bytes)
                  = [val |-> User(i, n), err |-> Nil]

\* the successful Set or Delete for the identifier of hist[j] that returned
\* last before hist[j], if there is one
LastWrite(j) == LastOf(WritesBefore(j, hist[j].id))

\* one caller, between calls: every cache entry is what the store returns
\* for its key, a Get returns the entity of the last successful Set for its
\* identifier, and not-found if a Delete was the last successful write
Coherent ==
    (HasCache /\ env.callers = {1} /\ ph[1] = "idle") =>
        /\ \A k \in DOMAIN cached :
              InMemoryRepositoryGet(env.ser, entities, k)
                  = [entity |-> cached[k].entity, err |-> Nil]
        /\ \A j \in 1..Len(hist) :
              (IsGet(hist[j]) /\ WritesBefore(j, hist[j].id) # {}) =>
                  IF hist[LastWrite(j)].name = "Set"
                  THEN /\ hist[j].err = Nil
                       /\ hist[j].res = hist[LastWrite(j)].entity
                  ELSE hist[j].err = errNotFound

\* C19 as claimed: with one caller, after every call on a Cache over a store
\* each cache entry equals what the store holds for that identifier, a Get
\* after a successful Set(e) returns e and a Get after Delete(id) returns
\* not-found.
C19_Original == Coherent

\* C19: with one caller, on a Cache over a store whose identifier serializer
\* gives distinct identifiers distinct keys and whose entity serializer
\* returns from UnSerialize what it serialized, after every call (a failed
\* Set included) each cache entry equals what the store holds for that
\* identifier, a Get after a successful Set(e) returns e and a Get after
\* Delete(id) returns not-found.
C19_CacheMirrorsStore == SoundSerializers(env.ser) => Coherent

\* Set(John), a Set(Bob) the store refuses, then a Get that fetches and
\* caches John
C19_Witness ==
    /\ HasCache /\ SoundSerializers(env.ser)
    /\ ph[1] = "idle"
    /\ Len(hist) = 3
    /\ hist[1].name = "Set" /\ hist[1].entity = User("10", "John")
    /\ hist[1].err = Nil
    /\ hist[2].name = "Set" /\ hist[2].entity = User("10", "Bob")
    /\ hist[2].err # Nil
    /\ IsGet(hist[3]) /\ hist[3].id = "10" /\ hist[3].res = User("10", "John")
    /\ "10" \in DOMAIN cached /\ cached["10"].entity = User("10", "John")
=============================================================================
